---- MODULE Spec2Model ----
(***************************************************************************)
(* Model of apb/sw/python/apb.py: SerialBridge, the host-side driver of    *)
(* the APB serial bridge.  A call of read or write is a sequence of        *)
(* blocking calls on the transport iface (one write, then one or two       *)
(* reads); each caller's position in that sequence is call[t].pc.          *)
(*                                                                         *)
(* Python integers are unbounded while TLC's are 32-bit, and the code      *)
(* handles values up to 2**32.  An integer v is therefore held as two      *)
(* limbs, [hi, lo] with v = hi * 2^16 + lo and 0 <= lo < 2^16 (hi carries  *)
(* the sign, as in two's complement).                                      *)
(***************************************************************************)
EXTENDS Integers, Sequences, FiniteSets, TLC

VARIABLES
    self,     \* the SerialBridge object: [addr_byte_count, iface]
    call,     \* per caller: the frame of its current read/write call
    ncalls,   \* per caller: calls already returned to the caller
    tx,       \* transport, host -> peer: frames written by iface.write
    rx        \* transport, peer -> host: bytes not yet taken by iface.read

vars == <<self, call, ncalls, tx, rx>>

----------------------------------------------------------------------------
(* Bounds of the model *)

\* calls one caller makes, one after the other
MaxCalls == 2
\* calls the two concurrent callers make between them
ConcCalls == 2

Threads == {1, 2}

----------------------------------------------------------------------------
(* Unbounded integers as two 16-bit limbs *)

Limb == 2^16

W(hi, lo) == [hi |-> hi, lo |-> lo]

ToWide(i) == W(i \div Limb, i % Limb)

Zero == W(0, 0)

Lt(a, b) == a.hi < b.hi \/ (a.hi = b.hi /\ a.lo < b.lo)

Le(a, b) == a = b \/ Lt(a, b)

\* 2 ** k for k in 0..46
Pow2(k) == IF k < 16 THEN W(0, 2^k) ELSE W(2^(k - 16), 0)

\* w - 1
Pred(w) == IF w.lo > 0 THEN W(w.hi, w.lo - 1) ELSE W(w.hi - 1, Limb - 1)

\* w << 2
shl2(w) == LET l == w.lo * 4 IN W(w.hi * 4 + l \div Limb, l % Limb)

\* (w >> i * 8) & 0xFF, for a byte index i in 0..3
ByteOf(w, i) ==
    IF i < 2 THEN (w.lo \div 256^i) % 256 ELSE (w.hi \div 256^(i - 2)) % 256

\* w * 256 + b
Shl8Or(w, b) == LET l == w.lo * 256 + b IN W(w.hi * 256 + l \div Limb, l % Limb)

----------------------------------------------------------------------------
(* Constants and pure parts of SerialBridge *)

_READ == 0
_WRITE == 1

\* mutant: the bound taken as the largest byte address itself, 2 ** (8 * n) - 4
addr_in_range_strict(addr, n) ==
    Le(Zero, addr) /\ Lt(addr, Pred(Pred(Pred(Pred(Pow2(8 * n))))))

\* the assertion on the byte address, read and write
addr_in_range(addr, n) == Le(Zero, addr) /\ Lt(addr, Pred(Pow2(8 * n)))

\* the assertion on the data value, write
data_in_range(data) == Le(Zero, data) /\ Lt(data, Pred(Pow2(32)))

\* for i in reversed(range(count)): tx_buf.append((v >> i * 8) & 0xFF)
be_bytes(v, count) == [k \in 1..count |-> ByteOf(v, count - k)]

\* mutant: the address bytes appended least significant first
read_tx_buf_le(addr, n) == <<_READ * 32>> \o [k \in 1..n |-> ByteOf(addr, k - 1)]

\* tx_buf of read
read_tx_buf(addr, n) == <<_READ * 32>> \o be_bytes(addr, n)

\* mutant: the data bytes appended least significant first
write_tx_buf_le(addr, data, n) ==
    <<_WRITE * 32>> \o be_bytes(addr, n) \o [k \in 1..4 |-> ByteOf(data, k - 1)]

\* tx_buf of write
write_tx_buf(addr, data, n) == <<_WRITE * 32>> \o be_bytes(addr, n) \o be_bytes(data, 4)

\* int.from_bytes(buf, byteorder='big')
RECURSIVE from_bytes_acc(_, _)
from_bytes_acc(acc, buf) ==
    IF buf = <<>> THEN acc ELSE from_bytes_acc(Shl8Or(acc, Head(buf)), Tail(buf))

\* mutant: byteorder='little'
from_bytes_le(buf) == from_bytes_acc(Zero, [k \in 1..Len(buf) |-> buf[Len(buf) + 1 - k]])

from_bytes(buf) == from_bytes_acc(Zero, buf)

\* mutant: the mask 0x40
slverr_bit6(status) == (status \div 64) % 2 # 0

\* mutant: any non-zero status taken as an error
slverr_nonzero(status) == status # 0

\* (status & 0x80) != 0
slverr(status) == (status \div 128) % 2 # 0

----------------------------------------------------------------------------
(* State *)

IdleCall ==
    [pc |-> "Idle", op |-> "none",
     arg_addr |-> Zero, arg_data |-> Zero,   \* arguments as the caller passed them
     addr |-> Zero, data |-> Zero,           \* locals
     tx_buf |-> <<>>, status |-> -1, rx_buf |-> <<>>,
     ret |-> <<>>,                           \* <<v>> once read has returned v
     exc |-> "none", exc_args |-> <<>>,      \* the exception raised, and what it carries
     ops |-> <<>>,                           \* transport calls made by this call, in order
     got |-> <<>>]                           \* bytes iface.read handed to this call

AddrByteCounts == 1..4

Init ==
    /\ self \in [addr_byte_count : AddrByteCounts, iface : {"iface"}]
    /\ call = [t \in Threads |-> IdleCall]
    /\ ncalls = [t \in Threads |-> 0]
    /\ tx = <<>>
    /\ rx = <<>>

\* log entries of ops
WriteOp(buf) == [f |-> "write", buf |-> buf, n |-> Len(buf)]
ReadOp(n) == [f |-> "read", buf |-> <<>>, n |-> n]

\* the call a caller is in: <<caller, number of the call>>
CallId(t) == <<t, ncalls[t] + 1>>

----------------------------------------------------------------------------
(* SerialBridge.read *)

\* mutant: read enters only while no other caller is in a call, as it would
\* under a lock held for the length of a call
read_call_locked(t, a) ==
    /\ call[t].pc = "Idle"
    /\ \A u \in Threads \ {t} : call[u].pc = "Idle"
    /\ LET addr == shl2(a)
           n == self.addr_byte_count
           tx_buf == read_tx_buf(addr, n)
           entered == [call[t] EXCEPT !.op = "read", !.arg_addr = a, !.addr = addr]
       IN IF ~addr_in_range(addr, n)
          THEN /\ call' = [call EXCEPT ![t] =
                          [entered EXCEPT !.pc = "Failed", !.exc = "addr overrange"]]
               /\ UNCHANGED <<tx, rx>>
          ELSE \/ /\ call' = [call EXCEPT ![t] =
                             [entered EXCEPT !.pc = "FrameSent", !.tx_buf = tx_buf,
                                             !.ops = <<WriteOp(tx_buf)>>]]
                  /\ tx' = Append(tx, [buf |-> tx_buf, owner |-> CallId(t)])
                  /\ UNCHANGED rx
               \/ /\ call' = [call EXCEPT ![t] =
                             [entered EXCEPT !.pc = "Failed", !.tx_buf = tx_buf,
                                             !.exc = "TransportError",
                                             !.ops = <<WriteOp(tx_buf)>>]]
                  /\ UNCHANGED <<tx, rx>>
    /\ UNCHANGED <<self, ncalls>>

\* read(addr) up to and including self.iface.write(bytes(tx_buf))
read_call(t, a) ==
    /\ call[t].pc = "Idle"
    /\ LET addr == shl2(a)
           n == self.addr_byte_count
           tx_buf == read_tx_buf(addr, n)
           entered == [call[t] EXCEPT !.op = "read", !.arg_addr = a, !.addr = addr]
       IN IF ~addr_in_range(addr, n)
          THEN /\ call' = [call EXCEPT ![t] =
                          [entered EXCEPT !.pc = "Failed", !.exc = "addr overrange"]]
               /\ UNCHANGED <<tx, rx>>
          ELSE \/ /\ call' = [call EXCEPT ![t] =
                             [entered EXCEPT !.pc = "FrameSent", !.tx_buf = tx_buf,
                                             !.ops = <<WriteOp(tx_buf)>>]]
                  /\ tx' = Append(tx, [buf |-> tx_buf, owner |-> CallId(t)])
                  /\ UNCHANGED rx
               \/ \* iface.write raises
                  /\ call' = [call EXCEPT ![t] =
                             [entered EXCEPT !.pc = "Failed", !.tx_buf = tx_buf,
                                             !.exc = "TransportError",
                                             !.ops = <<WriteOp(tx_buf)>>]]
                  /\ UNCHANGED <<tx, rx>>
    /\ UNCHANGED <<self, ncalls>>

\* read enters self.iface.read(1), which blocks until a byte is there
read_await(t) ==
    /\ call[t].pc = "FrameSent"
    /\ call[t].op = "read"
    /\ call' = [call EXCEPT ![t].pc = "AwaitingStatus", ![t].ops = Append(@, ReadOp(1))]
    /\ UNCHANGED <<self, ncalls, tx, rx>>

\* mutant: on a status with bit 7 set, read asks for the status again
read_status_retry(t) ==
    /\ call[t].pc = "AwaitingStatus"
    /\ call[t].op = "read"
    /\ \/ /\ Len(rx) >= 1
          /\ LET status == Head(rx).b
                 taken == [call[t] EXCEPT !.got = Append(@, Head(rx))]
             IN IF slverr(status)
                THEN call' = [call EXCEPT ![t] =
                             [taken EXCEPT !.ops = Append(@, ReadOp(1))]]
                ELSE call' = [call EXCEPT ![t] =
                             [taken EXCEPT !.pc = "AwaitingPayload", !.status = status,
                                           !.ops = Append(@, ReadOp(4))]]
          /\ rx' = Tail(rx)
       \/ /\ call' = [call EXCEPT ![t].pc = "Failed", ![t].exc = "TransportError"]
          /\ UNCHANGED rx
    /\ UNCHANGED <<self, ncalls, tx>>

\* self.iface.read(1) returns: the status check, then read enters self.iface.read(4)
read_status(t) ==
    /\ call[t].pc = "AwaitingStatus"
    /\ call[t].op = "read"
    /\ \/ /\ Len(rx) >= 1
          /\ LET status == Head(rx).b
                 taken == [call[t] EXCEPT !.status = status, !.got = Append(@, Head(rx))]
             IN IF slverr(status)
                THEN call' = [call EXCEPT ![t] =
                             [taken EXCEPT !.pc = "Failed", !.exc = "SLVERR",
                                           !.exc_args = <<call[t].addr>>]]
                ELSE call' = [call EXCEPT ![t] =
                             [taken EXCEPT !.pc = "AwaitingPayload",
                                           !.ops = Append(@, ReadOp(4))]]
          /\ rx' = Tail(rx)
       \/ \* iface.read raises
          /\ call' = [call EXCEPT ![t].pc = "Failed", ![t].exc = "TransportError"]
          /\ UNCHANGED rx
    /\ UNCHANGED <<self, ncalls, tx>>

\* mutant: self.iface.read(3)
read_payload_short(t) ==
    /\ call[t].pc = "AwaitingPayload"
    /\ \/ /\ Len(rx) >= 3
          /\ LET items == SubSeq(rx, 1, 3)
                 rx_buf == [k \in 1..3 |-> items[k].b]
             IN call' = [call EXCEPT ![t].pc = "Done", ![t].rx_buf = rx_buf,
                                     ![t].got = @ \o items,
                                     ![t].ret = <<from_bytes(rx_buf)>>]
          /\ rx' = SubSeq(rx, 4, Len(rx))
       \/ /\ call' = [call EXCEPT ![t].pc = "Failed", ![t].exc = "TransportError"]
          /\ UNCHANGED rx
    /\ UNCHANGED <<self, ncalls, tx>>

\* mutant: an exception of self.iface.read(4) swallowed, 0 returned
read_payload_swallow(t) ==
    /\ call[t].pc = "AwaitingPayload"
    /\ \/ /\ Len(rx) >= 4
          /\ LET items == SubSeq(rx, 1, 4)
                 rx_buf == [k \in 1..4 |-> items[k].b]
             IN call' = [call EXCEPT ![t].pc = "Done", ![t].rx_buf = rx_buf,
                                     ![t].got = @ \o items,
                                     ![t].ret = <<from_bytes(rx_buf)>>]
          /\ rx' = SubSeq(rx, 5, Len(rx))
       \/ /\ call' = [call EXCEPT ![t].pc = "Done", ![t].ret = <<Zero>>]
          /\ UNCHANGED rx
    /\ UNCHANGED <<self, ncalls, tx>>

\* self.iface.read(4) returns: return int.from_bytes(rx_buf, byteorder='big')
read_payload(t) ==
    /\ call[t].pc = "AwaitingPayload"
    /\ \/ /\ Len(rx) >= 4
          /\ LET items == SubSeq(rx, 1, 4)
                 rx_buf == [k \in 1..4 |-> items[k].b]
             IN call' = [call EXCEPT ![t].pc = "Done", ![t].rx_buf = rx_buf,
                                     ![t].got = @ \o items,
                                     ![t].ret = <<from_bytes(rx_buf)>>]
          /\ rx' = SubSeq(rx, 5, Len(rx))
       \/ \* iface.read raises
          /\ call' = [call EXCEPT ![t].pc = "Failed", ![t].exc = "TransportError"]
          /\ UNCHANGED rx
    /\ UNCHANGED <<self, ncalls, tx>>

----------------------------------------------------------------------------
(* SerialBridge.write *)

\* mutant: the data assertion placed after self.iface.write
write_call_late_assert(t, a, d) ==
    /\ call[t].pc = "Idle"
    /\ LET addr == shl2(a)
           n == self.addr_byte_count
           tx_buf == write_tx_buf(addr, d, n)
           entered == [call[t] EXCEPT !.op = "write", !.arg_addr = a, !.arg_data = d,
                                      !.addr = addr, !.data = d]
       IN IF ~addr_in_range(addr, n)
          THEN /\ call' = [call EXCEPT ![t] =
                          [entered EXCEPT !.pc = "Failed", !.exc = "addr overrange"]]
               /\ UNCHANGED <<tx, rx>>
          ELSE /\ tx' = Append(tx, [buf |-> tx_buf, owner |-> CallId(t)])
               /\ UNCHANGED rx
               /\ IF ~data_in_range(d)
                  THEN call' = [call EXCEPT ![t] =
                               [entered EXCEPT !.pc = "Failed", !.tx_buf = tx_buf,
                                               !.exc = "data overrange",
                                               !.ops = <<WriteOp(tx_buf)>>]]
                  ELSE call' = [call EXCEPT ![t] =
                               [entered EXCEPT !.pc = "FrameSent", !.tx_buf = tx_buf,
                                               !.ops = <<WriteOp(tx_buf)>>]]
    /\ UNCHANGED <<self, ncalls>>

\* write(addr, data) up to and including self.iface.write(bytes(tx_buf))
write_call(t, a, d) ==
    /\ call[t].pc = "Idle"
    /\ LET addr == shl2(a)
           n == self.addr_byte_count
           tx_buf == write_tx_buf(addr, d, n)
           entered == [call[t] EXCEPT !.op = "write", !.arg_addr = a, !.arg_data = d,
                                      !.addr = addr, !.data = d]
       IN IF ~addr_in_range(addr, n)
          THEN /\ call' = [call EXCEPT ![t] =
                          [entered EXCEPT !.pc = "Failed", !.exc = "addr overrange"]]
               /\ UNCHANGED <<tx, rx>>
          ELSE IF ~data_in_range(d)
          THEN /\ call' = [call EXCEPT ![t] =
                          [entered EXCEPT !.pc = "Failed", !.exc = "data overrange"]]
               /\ UNCHANGED <<tx, rx>>
          ELSE \/ /\ call' = [call EXCEPT ![t] =
                             [entered EXCEPT !.pc = "FrameSent", !.tx_buf = tx_buf,
                                             !.ops = <<WriteOp(tx_buf)>>]]
                  /\ tx' = Append(tx, [buf |-> tx_buf, owner |-> CallId(t)])
                  /\ UNCHANGED rx
               \/ \* iface.write raises
                  /\ call' = [call EXCEPT ![t] =
                             [entered EXCEPT !.pc = "Failed", !.tx_buf = tx_buf,
                                             !.exc = "TransportError",
                                             !.ops = <<WriteOp(tx_buf)>>]]
                  /\ UNCHANGED <<tx, rx>>
    /\ UNCHANGED <<self, ncalls>>

\* write enters self.iface.read(1), which blocks until a byte is there
write_await(t) ==
    /\ call[t].pc = "FrameSent"
    /\ call[t].op = "write"
    /\ call' = [call EXCEPT ![t].pc = "AwaitingStatus", ![t].ops = Append(@, ReadOp(1))]
    /\ UNCHANGED <<self, ncalls, tx, rx>>

\* mutant: write gives up when no status byte is there
write_status_timeout(t) ==
    /\ call[t].pc = "AwaitingStatus"
    /\ call[t].op = "write"
    /\ \/ /\ Len(rx) >= 1
          /\ LET status == Head(rx).b
                 taken == [call[t] EXCEPT !.status = status, !.got = Append(@, Head(rx))]
             IN IF slverr(status)
                THEN call' = [call EXCEPT ![t] =
                             [taken EXCEPT !.pc = "Failed", !.exc = "SLVERR",
                                           !.exc_args = <<call[t].addr, call[t].data>>]]
                ELSE call' = [call EXCEPT ![t] = [taken EXCEPT !.pc = "Done"]]
          /\ rx' = Tail(rx)
       \/ /\ Len(rx) = 0
          /\ call' = [call EXCEPT ![t].pc = "Failed", ![t].exc = "Timeout"]
          /\ UNCHANGED rx
       \/ /\ call' = [call EXCEPT ![t].pc = "Failed", ![t].exc = "TransportError"]
          /\ UNCHANGED rx
    /\ UNCHANGED <<self, ncalls, tx>>

\* mutant: SLVERR raised with the register index the caller passed, not the
\* byte address
write_status_index(t) ==
    /\ call[t].pc = "AwaitingStatus"
    /\ call[t].op = "write"
    /\ \/ /\ Len(rx) >= 1
          /\ LET status == Head(rx).b
                 taken == [call[t] EXCEPT !.status = status, !.got = Append(@, Head(rx))]
             IN IF slverr(status)
                THEN call' = [call EXCEPT ![t] =
                             [taken EXCEPT !.pc = "Failed", !.exc = "SLVERR",
                                           !.exc_args = <<call[t].arg_addr, call[t].data>>]]
                ELSE call' = [call EXCEPT ![t] = [taken EXCEPT !.pc = "Done"]]
          /\ rx' = Tail(rx)
       \/ /\ call' = [call EXCEPT ![t].pc = "Failed", ![t].exc = "TransportError"]
          /\ UNCHANGED rx
    /\ UNCHANGED <<self, ncalls, tx>>

\* mutant: after a status with bit 7 clear, write reads 4 bytes as read does
write_status_payload(t) ==
    /\ call[t].pc = "AwaitingStatus"
    /\ call[t].op = "write"
    /\ \/ /\ Len(rx) >= 1
          /\ LET status == Head(rx).b
                 taken == [call[t] EXCEPT !.status = status, !.got = Append(@, Head(rx))]
             IN IF slverr(status)
                THEN call' = [call EXCEPT ![t] =
                             [taken EXCEPT !.pc = "Failed", !.exc = "SLVERR",
                                           !.exc_args = <<call[t].addr, call[t].data>>]]
                ELSE call' = [call EXCEPT ![t] =
                             [taken EXCEPT !.pc = "AwaitingPayload",
                                           !.ops = Append(@, ReadOp(4))]]
          /\ rx' = Tail(rx)
       \/ /\ call' = [call EXCEPT ![t].pc = "Failed", ![t].exc = "TransportError"]
          /\ UNCHANGED rx
    /\ UNCHANGED <<self, ncalls, tx>>

\* self.iface.read(1) returns: the status check, then return
write_status(t) ==
    /\ call[t].pc = "AwaitingStatus"
    /\ call[t].op = "write"
    /\ \/ /\ Len(rx) >= 1
          /\ LET status == Head(rx).b
                 taken == [call[t] EXCEPT !.status = status, !.got = Append(@, Head(rx))]
             IN IF slverr(status)
                THEN call' = [call EXCEPT ![t] =
                             [taken EXCEPT !.pc = "Failed", !.exc = "SLVERR",
                                           !.exc_args = <<call[t].addr, call[t].data>>]]
                ELSE call' = [call EXCEPT ![t] = [taken EXCEPT !.pc = "Done"]]
          /\ rx' = Tail(rx)
       \/ \* iface.read raises
          /\ call' = [call EXCEPT ![t].pc = "Failed", ![t].exc = "TransportError"]
          /\ UNCHANGED rx
    /\ UNCHANGED <<self, ncalls, tx>>

----------------------------------------------------------------------------
(* The caller and the peer *)

\* mutant: a failed call leaves a mark on the object
call_return_poison(t) ==
    /\ call[t].pc \in {"Done", "Failed"}
    /\ call' = [call EXCEPT ![t] = IdleCall]
    /\ ncalls' = [ncalls EXCEPT ![t] = @ + 1]
    /\ self' = IF call[t].pc = "Failed" THEN [self EXCEPT !.iface = "failed"] ELSE self
    /\ UNCHANGED <<tx, rx>>

\* the call has returned or raised; the caller may make its next call
call_return(t) ==
    /\ call[t].pc \in {"Done", "Failed"}
    /\ call' = [call EXCEPT ![t] = IdleCall]
    /\ ncalls' = [ncalls EXCEPT ![t] = @ + 1]
    /\ UNCHANGED <<self, tx, rx>>

\* the response to one frame; each byte is tagged with the call the frame came
\* from and with its position in the response (1 is the status byte)
Tagged(bytes, owner) ==
    [k \in 1..Len(bytes) |-> [b |-> bytes[k], owner |-> owner, pos |-> k]]

\* The peer takes the oldest frame and answers it: a status byte, then, for a
\* READ whose status has bit 7 clear, the 4 bytes of the register value.
peer_respond(status, value) ==
    /\ tx # <<>>
    /\ LET frame == Head(tx)
           opcode == frame.buf[1] \div 32
           resp == IF opcode = _READ /\ status < 128
                   THEN <<status>> \o be_bytes(value, 4)
                   ELSE IF opcode \in {_READ, _WRITE} THEN <<status>> ELSE <<>>
       IN rx' = rx \o Tagged(resp, frame.owner)
    /\ tx' = Tail(tx)
    /\ UNCHANGED <<self, call, ncalls>>

----------------------------------------------------------------------------
(* Inputs *)

\* the largest register index whose byte address fits in n bytes
MaxIndex(n) == 2^(8 * n - 2) - 1

\* register indices passed by the caller
AddrInputs(n) == {ToWide(i) : i \in {-1, 0, 3, 291, MaxIndex(n), MaxIndex(n) + 1}}

\* data values passed by the caller:
\* -1, 0, 0xDEADBEEF, 2^32 - 2, 2^32 - 1, 2^32
DataInputs ==
    {W(-1, 65535), Zero, W(57005, 48879), W(65535, 65534), W(65535, 65535), W(65536, 0)}

\* status bytes the peer answers with
StatusBytes == {0, 127, 128, 193}

\* register values the peer answers with: 42, 0xDEADBEEF, 2^32 - 1
PeerValues == {W(0, 42), W(57005, 48879), W(65535, 65535)}

----------------------------------------------------------------------------
(* One caller, calls one after the other *)

Next ==
    \/ \E a \in AddrInputs(self.addr_byte_count) :
          ncalls[1] < MaxCalls /\ read_call(1, a)
    \/ read_await(1)
    \/ read_status(1)
    \/ read_payload(1)
    \/ \E a \in AddrInputs(self.addr_byte_count), d \in DataInputs :
          ncalls[1] < MaxCalls /\ write_call(1, a, d)
    \/ write_await(1)
    \/ write_status(1)
    \/ call_return(1)
    \/ \E s \in StatusBytes, v \in PeerValues : peer_respond(s, v)

Spec == Init /\ [][Next]_vars

----------------------------------------------------------------------------
(* One caller on a transport that never raises *)

\* no transport call raises in this step
NoRaise == \A t \in Threads : call'[t].exc # "TransportError"

NextSync ==
    \/ \E a \in AddrInputs(self.addr_byte_count) :
          ncalls[1] < MaxCalls /\ read_call(1, a) /\ NoRaise
    \/ read_await(1)
    \/ read_status(1) /\ NoRaise
    \/ read_payload(1) /\ NoRaise
    \/ \E a \in AddrInputs(self.addr_byte_count), d \in DataInputs :
          ncalls[1] < MaxCalls /\ write_call(1, a, d) /\ NoRaise
    \/ write_await(1)
    \/ write_status(1) /\ NoRaise
    \/ call_return(1)
    \/ \E s \in StatusBytes, v \in PeerValues : peer_respond(s, v)

SpecSync == Init /\ [][NextSync]_vars

----------------------------------------------------------------------------
(* One caller; every transport read it is blocked in returns or raises *)

NextLive ==
    \/ \E a \in {ToWide(3)} : ncalls[1] < MaxCalls /\ read_call(1, a)
    \/ read_await(1)
    \/ read_status(1)
    \/ read_payload(1)
    \/ \E a \in {ToWide(3)}, d \in {W(57005, 48879)} :
          ncalls[1] < MaxCalls /\ write_call(1, a, d)
    \/ write_await(1)
    \/ write_status(1)
    \/ call_return(1)
    \/ \E s \in {0, 128}, v \in {W(57005, 48879)} : peer_respond(s, v)

SpecLive ==
    /\ Init /\ [][NextLive]_vars
    /\ WF_vars(read_await(1)) /\ WF_vars(read_status(1)) /\ WF_vars(read_payload(1))
    /\ WF_vars(write_await(1)) /\ WF_vars(write_status(1))

----------------------------------------------------------------------------
(* One call, answered with any status byte *)

AllStatusBytes == 0..255

NextStatus ==
    \/ \E a \in {ToWide(3)} : read_call(1, a)
    \/ read_await(1)
    \/ read_status(1)
    \/ read_payload(1)
    \/ \E a \in {ToWide(3)}, d \in {W(57005, 48879)} : write_call(1, a, d)
    \/ write_await(1)
    \/ write_status(1)
    \/ \E s \in AllStatusBytes, v \in {W(0, 42), W(57005, 48879)} : peer_respond(s, v)

SpecStatus == Init /\ [][NextStatus]_vars

----------------------------------------------------------------------------
(* Two callers on the same SerialBridge, with nothing serializing them *)

ConcAddrInputs == {ToWide(3)}

ConcDataInputs == {W(57005, 48879)}

ConcStatusBytes == {0, 128}

ConcPeerValues == {W(0, 42), W(57005, 48879)}

\* calls entered so far, by any caller
Entered == LET InCall(t) == IF call[t].pc = "Idle" THEN 0 ELSE 1
           IN ncalls[1] + ncalls[2] + InCall(1) + InCall(2)

NextConc ==
    \/ \E t \in Threads :
          \/ \E a \in ConcAddrInputs : Entered < ConcCalls /\ read_call(t, a)
          \/ read_await(t)
          \/ read_status(t)
          \/ read_payload(t)
          \/ \E a \in ConcAddrInputs, d \in ConcDataInputs :
                Entered < ConcCalls /\ write_call(t, a, d)
          \/ write_await(t)
          \/ write_status(t)
          \/ call_return(t)
    \/ \E s \in ConcStatusBytes, v \in ConcPeerValues : peer_respond(s, v)

SpecConc == Init /\ [][NextConc]_vars

----------------------------------------------------------------------------
(* Arithmetic the properties are stated in, independent of the code's shifts *)

Add(a, b) == LET l == a.lo + b.lo IN W(a.hi + b.hi + l \div Limb, l % Limb)

Times4(w) == Add(Add(w, w), Add(w, w))

\* b * 256^i
PlaceValue(b, i) == IF i < 2 THEN W(0, b * 256^i) ELSE W(b * 256^(i - 2), 0)

\* the number whose base-256 digits, most significant first, are bytes
RECURSIVE BigEndianValue(_)
BigEndianValue(bytes) ==
    IF bytes = <<>> THEN Zero
    ELSE Add(PlaceValue(Head(bytes), Len(bytes) - 1), BigEndianValue(Tail(bytes)))

IsByte(b) == b \in 0..255

\* 2^32
TwoTo32 == W(65536, 0)

ValidationFailed(c) == c.exc \in {"addr overrange", "data overrange"}

\* the call of caller t got past the assertions
Validated(t, op) == call[t].op = op /\ ~ValidationFailed(call[t])

----------------------------------------------------------------------------
(* C1 .. C9: one caller *)

\* C1: the frame read(addr) writes has exactly 1 + addr_byte_count bytes: the
\* header 0x00, then the byte address 4 * addr, most significant byte first.
C1_ReadFrame ==
    \A t \in Threads :
        Validated(t, "read") =>
            /\ call[t].ops # <<>>
            /\ LET frame == call[t].ops[1].buf
                   n == self.addr_byte_count
               IN /\ call[t].ops[1].f = "write"
                  /\ Len(frame) = 1 + n
                  /\ frame[1] = 0
                  /\ \A k \in 2..(1 + n) : IsByte(frame[k])
                  /\ BigEndianValue(SubSeq(frame, 2, 1 + n)) = Times4(call[t].arg_addr)

\* read(0x123) with addr_byte_count = 2 has written [0x00, 0x04, 0x8C]
C1_Witness ==
    /\ self.addr_byte_count = 2
    /\ call[1].op = "read"
    /\ call[1].arg_addr = ToWide(291)
    /\ call[1].ops # <<>>
    /\ call[1].ops[1].buf = <<0, 4, 140>>
    /\ tx # <<>> /\ tx[Len(tx)].buf = <<0, 4, 140>>

\* C2: the frame write(addr, value) writes has exactly 1 + addr_byte_count + 4
\* bytes: the header 0x20, the byte address 4 * addr and then value, both most
\* significant byte first.
C2_WriteFrame ==
    \A t \in Threads :
        Validated(t, "write") =>
            /\ call[t].ops # <<>>
            /\ LET frame == call[t].ops[1].buf
                   n == self.addr_byte_count
               IN /\ call[t].ops[1].f = "write"
                  /\ Len(frame) = 1 + n + 4
                  /\ frame[1] = 32
                  /\ \A k \in 2..(5 + n) : IsByte(frame[k])
                  /\ BigEndianValue(SubSeq(frame, 2, 1 + n)) = Times4(call[t].arg_addr)
                  /\ BigEndianValue(SubSeq(frame, 2 + n, 5 + n)) = call[t].arg_data

\* write(0x03, 0xDEADBEEF) with addr_byte_count = 1 has written
\* [0x20, 0x0C, 0xDE, 0xAD, 0xBE, 0xEF]
C2_Witness ==
    /\ self.addr_byte_count = 1
    /\ call[1].op = "write"
    /\ call[1].ops # <<>>
    /\ call[1].ops[1].buf = <<32, 12, 222, 173, 190, 239>>
    /\ tx # <<>> /\ tx[Len(tx)].buf = <<32, 12, 222, 173, 190, 239>>

\* C3: once the status byte a call has read has bit 7 set, the call has failed
\* with SLVERR and has made no transport call after the 1-byte status read: it
\* has taken one byte from the transport, and read has not asked for 4 more.
C3_SlaveError ==
    \A t \in Threads :
        call[t].status >= 128 =>
            /\ call[t].pc = "Failed"
            /\ call[t].exc = "SLVERR"
            /\ Len(call[t].ops) = 2
            /\ call[t].ops[2] = ReadOp(1)
            /\ Len(call[t].got) = 1
            /\ call[t].ret = <<>>

\* a read answered with status 0x80 has failed
C3_Witness ==
    /\ call[1].op = "read"
    /\ call[1].status = 128
    /\ call[1].exc = "SLVERR"

\* C4 (as claimed): write rejects a value as out of range only if it is
\* negative or at least 2^32.
C4_DataRange ==
    \A t \in Threads :
        call[t].exc = "data overrange" =>
            \/ Lt(call[t].arg_data, Zero)
            \/ Le(TwoTo32, call[t].arg_data)

\* C5: register index 0 and the largest index whose byte address fits in
\* addr_byte_count bytes pass the address check, and the frame is written
\* unless the data check of write fails; the index one past the largest fails
\* with the address assertion, and no transport call is made.
C5_AddrBoundary ==
    \A t \in Threads :
        LET c == call[t]
            max == ToWide(MaxIndex(self.addr_byte_count))
        IN /\ (c.op # "none" /\ c.arg_addr \in {Zero, max}) =>
                  /\ c.exc # "addr overrange"
                  /\ c.exc # "data overrange" => c.ops # <<>>
           /\ (c.op # "none" /\ c.arg_addr = Add(max, W(0, 1))) =>
                  /\ c.pc = "Failed"
                  /\ c.exc = "addr overrange"
                  /\ c.ops = <<>>
                  /\ c.got = <<>>

\* a write to the largest index with 4 address bytes, 2^30 - 1, has succeeded
C5_Witness ==
    /\ self.addr_byte_count = 4
    /\ call[1].op = "write"
    /\ call[1].arg_addr = W(16383, 65535)
    /\ call[1].pc = "Done"

\* C6: the step in which a call fails an assertion makes no transport call: it
\* leaves both directions of the transport as they were, and the call has
\* made no transport call when it fails.
C6_NoIoOnValidationFailure ==
    [][\A t \in Threads :
          (call[t].pc = "Idle" /\ ValidationFailed(call'[t])) =>
              /\ tx' = tx
              /\ rx' = rx
              /\ call'[t].ops = <<>>
              /\ call'[t].got = <<>>
              /\ call'[t].pc = "Failed"]_vars

\* a write of -1 has failed the data assertion
C6_Witness ==
    /\ call[1].op = "write"
    /\ call[1].arg_data = W(-1, 65535)
    /\ call[1].exc = "data overrange"
    /\ call[1].ops = <<>>

\* C7: a read that was handed a status byte with bit 7 clear and then 4 bytes
\* returns the number those 4 bytes are in big-endian order.
C7_ReadRoundTrip ==
    \A t \in Threads :
        (call[t].op = "read" /\ Len(call[t].got) = 5) =>
            /\ call[t].got[1].b < 128
            /\ call[t].pc = "Done"
            /\ call[t].ret =
                  <<BigEndianValue([k \in 1..4 |-> call[t].got[k + 1].b])>>

\* a read answered [0x00, 0xDE, 0xAD, 0xBE, 0xEF] has returned 0xDEADBEEF
C7_Witness ==
    /\ call[1].op = "read"
    /\ call[1].pc = "Done"
    /\ [k \in 1..5 |-> call[1].got[k].b] = <<0, 222, 173, 190, 239>>
    /\ call[1].ret = <<W(57005, 48879)>>

\* C8: the transport calls of a read that passed validation are, in order, one
\* write of the whole frame, one read of 1 byte and, only after a status with
\* bit 7 clear, one read of 4 bytes, and no others (the sequence stops early
\* only where the transport itself raises); a read that has returned has made
\* all three, one that failed with SLVERR the first two.
C8_ReadOpOrder ==
    \A t \in Threads :
        Validated(t, "read") =>
            LET c == call[t]
                o == c.ops
            IN /\ Len(o) \in 1..3
               /\ o[1].f = "write" /\ o[1].n = 1 + self.addr_byte_count
               /\ Len(o) >= 2 => o[2] = ReadOp(1)
               /\ Len(o) >= 3 => o[3] = ReadOp(4) /\ c.status \in 0..127
               /\ c.pc = "FrameSent" => Len(o) = 1
               /\ c.pc = "AwaitingStatus" => Len(o) = 2
               /\ c.pc \in {"AwaitingPayload", "Done"} => Len(o) = 3
               /\ c.exc = "SLVERR" => Len(o) = 2
               /\ Len(c.got) = (IF c.status < 0 THEN 0 ELSE IF c.pc = "Done" THEN 5 ELSE 1)

\* a read has returned after write, read(1), read(4)
C8_Witness ==
    /\ call[1].op = "read"
    /\ call[1].pc = "Done"
    /\ Len(call[1].ops) = 3
    /\ call[1].ops[3] = ReadOp(4)

\* C9: the transport calls of a write that passed validation are, in order,
\* one write of the whole frame and one read of 1 byte, whatever the status;
\* a write that has returned or failed with SLVERR has made both and has been
\* handed exactly one byte.
C9_WriteOpOrder ==
    \A t \in Threads :
        Validated(t, "write") =>
            LET c == call[t]
                o == c.ops
            IN /\ Len(o) \in 1..2
               /\ o[1].f = "write" /\ o[1].n = 1 + self.addr_byte_count + 4
               /\ Len(o) = 2 => o[2] = ReadOp(1)
               /\ c.pc = "FrameSent" => Len(o) = 1
               /\ c.pc = "AwaitingStatus" => Len(o) = 2
               /\ c.pc # "AwaitingPayload"
               /\ (c.pc = "Done" \/ c.exc = "SLVERR") => Len(o) = 2 /\ Len(c.got) = 1
               /\ c.pc = "Done" => c.status \in 0..127
               /\ c.ret = <<>>

\* a write answered with status 0x80 has failed after write, read(1)
C9_Witness ==
    /\ call[1].op = "write"
    /\ call[1].exc = "SLVERR"
    /\ call[1].status = 128
    /\ Len(call[1].ops) = 2

----------------------------------------------------------------------------
(* C10: two callers *)

\* caller t has been handed a byte the peer sent in answer to u's current call
TookFrom(t, u) == \E i \in 1..Len(call[t].got) : call[t].got[i].owner = CallId(u)

\* caller u's call has ended, by returning or with SLVERR, on exactly the bytes
\* of its own response, each in its place
EndedOnOwnResponse(u) ==
    /\ call[u].pc = "Done" \/ call[u].exc = "SLVERR"
    /\ \A k \in 1..Len(call[u].got) :
          call[u].got[k].owner = CallId(u) /\ call[u].got[k].pos = k

\* C10: the codec takes no lock: a caller that is not in a call can enter read
\* or write whatever the other caller is in the middle of; and once a call has
\* been handed a byte of the other call's response, neither call ends on its
\* own response.
C10_NoLock ==
    \A t \in Threads :
        /\ call[t].pc = "Idle" =>
              /\ ENABLED read_call(t, Zero)
              /\ ENABLED write_call(t, Zero, Zero)
        /\ \A u \in Threads \ {t} :
              TookFrom(t, u) => ~EndedOnOwnResponse(t) /\ ~EndedOnOwnResponse(u)

\* a write has taken the status byte of a concurrent read as its own status and
\* returned; the read has then taken the first byte of its payload, 0xDE, as its
\* status and failed with SLVERR
C10_Witness ==
    /\ call[2].op = "write" /\ call[2].pc = "Done"
    /\ call[2].got[1].owner = CallId(1) /\ call[2].got[1].pos = 1
    /\ call[1].op = "read" /\ call[1].exc = "SLVERR"
    /\ call[1].got[1].owner = CallId(1) /\ call[1].got[1].pos = 2
    /\ call[1].got[1].b = 222

----------------------------------------------------------------------------
(* C11 .. C17 *)

\* C11: SLVERR carries the byte address, 4 times the register index the caller
\* passed and not the index itself; raised by read it carries nothing else,
\* raised by write it also carries the data value as the caller passed it.
\* (The message formats both with #08X, which pads and never truncates.)
C11_SlaveErrorArgs ==
    \A t \in Threads :
        call[t].exc = "SLVERR" =>
            /\ call[t].exc_args[1] = Times4(call[t].arg_addr)
            /\ call[t].op = "read" => Len(call[t].exc_args) = 1
            /\ call[t].op = "write" =>
                  /\ Len(call[t].exc_args) = 2
                  /\ call[t].exc_args[2] = call[t].arg_data

\* write(0x03, 0xDEADBEEF) answered 0x80 has raised SLVERR with byte address
\* 0x0C and data 0xDEADBEEF
C11_Witness ==
    /\ call[1].op = "write"
    /\ call[1].arg_addr = W(0, 3)
    /\ call[1].exc = "SLVERR"
    /\ call[1].exc_args = <<W(0, 12), W(57005, 48879)>>

\* C12: between the states Idle, FrameSent, AwaitingStatus, AwaitingPayload, Done
\* and Failed(SLVERR) a call moves only along Idle -> FrameSent ->
\* AwaitingStatus, then to Failed(SLVERR), or to AwaitingPayload -> Done in
\* read, or to Done in write; write never enters AwaitingPayload, SLVERR is
\* raised only from AwaitingStatus and no state is entered twice.  A call
\* leaves these states otherwise only by an exception that is not SLVERR: an
\* assertion from Idle, or an exception of the transport call it is in.
C12_Transitions ==
    [][\A t \in Threads :
          LET c == call[t]
              d == call'[t]
          IN \/ d = c
             \/ c.pc = "Idle" /\ d.pc = "FrameSent"
             \/ c.pc = "FrameSent" /\ d.pc = "AwaitingStatus"
             \/ c.pc = "AwaitingStatus" /\ d.pc = "Failed" /\ d.exc = "SLVERR"
             \/ c.pc = "AwaitingStatus" /\ d.pc = "AwaitingPayload" /\ d.op = "read"
             \/ c.pc = "AwaitingPayload" /\ d.pc = "Done" /\ d.op = "read"
             \/ c.pc = "AwaitingStatus" /\ d.pc = "Done" /\ d.op = "write"
             \/ c.pc = "Idle" /\ d.pc = "Failed" /\ ValidationFailed(d)
             \/ /\ c.pc \in {"Idle", "AwaitingStatus", "AwaitingPayload"}
                /\ d.pc = "Failed" /\ d.exc = "TransportError"
             \/ c.pc \in {"Done", "Failed"} /\ d = IdleCall]_vars

\* a write has gone from AwaitingStatus to Done on status 0x00
C12_Witness ==
    /\ call[1].op = "write"
    /\ call[1].pc = "Done"
    /\ call[1].status = 0
    /\ Len(call[1].ops) = 2

\* C13: no step of read or write changes addr_byte_count or the transport
\* handle, whatever the outcome of the call, and a call starts with none of
\* the locals, status or result of the call before it.
C13_NoCodecState ==
    [][/\ self' = self
       /\ \A t \in Threads :
             (call[t].pc = "Idle" /\ call'[t].pc # "Idle") =>
                 call'[t] = [IdleCall EXCEPT !.pc = call'[t].pc, !.op = call'[t].op,
                                             !.arg_addr = call'[t].arg_addr,
                                             !.arg_data = call'[t].arg_data,
                                             !.addr = Times4(call'[t].arg_addr),
                                             !.data = call'[t].arg_data,
                                             !.tx_buf = call'[t].tx_buf,
                                             !.exc = call'[t].exc,
                                             !.ops = call'[t].ops]]_vars

\* after a first call that left its response unread, the second call, read(3)
\* with 2 address bytes, has written [0x00, 0x00, 0x0C]
C13_Witness ==
    /\ self.addr_byte_count = 2
    /\ ncalls[1] = 1
    /\ rx # <<>> /\ rx[1].owner = <<1, 1>>
    /\ call[1].op = "read"
    /\ call[1].pc = "FrameSent"
    /\ call[1].tx_buf = <<0, 0, 12>>

\* C14: a status byte with bit 7 clear, whatever its low 7 bits, never fails
\* the call: write returns, read goes on to the 4-byte payload and returns the
\* payload's big-endian value.
C14_StatusBit7Only ==
    \A t \in Threads :
        call[t].status \in 0..127 =>
            /\ call[t].exc \in {"none", "TransportError"}
            /\ call[t].exc_args = <<>>
            /\ call[t].op = "write" => call[t].pc = "Done" /\ call[t].ret = <<>>
            /\ call[t].op = "read" =>
                  /\ call[t].pc \in {"AwaitingPayload", "Done", "Failed"}
                  /\ call[t].pc = "Failed" => Len(call[t].ops) = 3
                  /\ call[t].pc = "Done" =>
                        call[t].ret =
                           <<BigEndianValue([k \in 1..4 |-> call[t].got[k + 1].b])>>

\* a read answered with status 0x55 has returned 0xDEADBEEF
C14_Witness ==
    /\ call[1].op = "read"
    /\ call[1].status = 85
    /\ call[1].pc = "Done"
    /\ call[1].ret = <<W(57005, 48879)>>

\* C15: when a transport call raises, the call fails in that step with the
\* transport's exception, returns nothing, and makes no transport call
\* afterwards: neither direction of the transport is touched, the frame is not
\* written again and the read is not repeated.
C15_TransportError ==
    [][\A t \in Threads :
          LET c == call[t]
              d == call'[t]
              ReadRaised == c.pc \in {"AwaitingStatus", "AwaitingPayload"} /\ d # c /\ rx' = rx
              WriteRaised == c.pc = "Idle" /\ d.ops # <<>> /\ tx' = tx
          IN /\ (ReadRaised \/ WriteRaised) =>
                   /\ d.pc = "Failed"
                   /\ d.exc = "TransportError"
                   /\ d.exc_args = <<>>
                   /\ d.ret = <<>>
                   /\ d.got = c.got
                   /\ d.status = c.status
                   /\ tx' = tx /\ rx' = rx
                   /\ ReadRaised => d.ops = c.ops
                   /\ WriteRaised => Len(d.ops) = 1
             /\ c.exc = "TransportError" =>
                   \/ d = c
                   \/ d = IdleCall /\ tx' = tx /\ rx' = rx]_vars

\* a read has failed with the transport's exception in self.iface.read(4)
C15_Witness ==
    /\ call[1].op = "read"
    /\ call[1].exc = "TransportError"
    /\ call[1].status = 0
    /\ Len(call[1].ops) = 3
    /\ call[1].ret = <<>>

\* C16: a call that has written its frame ends by returning, with SLVERR or
\* with the transport's exception, and with nothing else; if every transport
\* read it is blocked in returns or raises, it does end; and it leaves
\* AwaitingStatus or AwaitingPayload only when the transport hands it the bytes
\* or raises, so with no byte arriving it stays where it is: there is no
\* timeout.
C16_Termination ==
    /\ [](\A t \in Threads :
             (call[t].ops # <<>> /\ call[t].pc \in {"Done", "Failed"}) =>
                 \/ call[t].pc = "Done" /\ call[t].exc = "none"
                 \/ call[t].pc = "Failed" /\ call[t].exc \in {"SLVERR", "TransportError"})
    /\ (call[1].pc = "FrameSent") ~> (call[1].pc \in {"Done", "Failed"})
    /\ [][\A t \in Threads :
             (call[t].pc \in {"AwaitingStatus", "AwaitingPayload"} /\ call'[t] # call[t]) =>
                 \/ call'[t].exc = "TransportError"
                 \/ /\ call[t].pc = "AwaitingStatus"
                    /\ rx # <<>> /\ rx' = Tail(rx)
                    /\ call'[t].got = Append(call[t].got, Head(rx))
                 \/ /\ call[t].pc = "AwaitingPayload"
                    /\ Len(rx) >= 4 /\ rx' = SubSeq(rx, 5, Len(rx))
                    /\ call'[t].got = call[t].got \o SubSeq(rx, 1, 4)]_vars

\* a write is blocked in self.iface.read(1) and no byte is there
C16_Witness ==
    /\ call[1].op = "write"
    /\ call[1].pc = "AwaitingStatus"
    /\ rx = <<>>

\* C17: on a transport that does not raise, against a peer that answers each
\* frame with one status byte and, for a read with bit 7 clear, 4 value bytes,
\* every byte a call is handed is a byte of its own response, in its place: 5
\* for a read that returned, 1 for a call that raised SLVERR, 1 for a write;
\* and when a call has ended, whether it returned, raised SLVERR or failed an
\* assertion, no frame is unanswered and no response byte is unread.
C17_FramingInSync ==
    LET c == call[1]
    IN /\ \A k \in 1..Len(c.got) : c.got[k].owner = CallId(1) /\ c.got[k].pos = k
       /\ c.pc \in {"Idle", "Done", "Failed"} => tx = <<>> /\ rx = <<>>
       /\ (c.pc = "Done" /\ c.op = "read") => Len(c.got) = 5
       /\ (c.pc = "Done" /\ c.op = "write") => Len(c.got) = 1
       /\ c.exc = "SLVERR" => Len(c.got) = 1
       /\ ValidationFailed(c) => Len(c.got) = 0

\* the second of two calls, a read, has returned on the 5 bytes of its own
\* response and nothing is left on the transport
C17_Witness ==
    /\ ncalls[1] = 1
    /\ call[1].op = "read"
    /\ call[1].pc = "Done"
    /\ Len(call[1].got) = 5
    /\ \A k \in 1..5 : call[1].got[k].owner = <<1, 2>>
    /\ rx = <<>>

====
